---- MODULE Spec2Model ----
(***************************************************************************)
(* Chart template store of aslan (templatestore/service/chart.go): create, *)
(* update, variable update, removal and read of named chart templates kept *)
(* in a metadata collection, an object store archive and a per-host local  *)
(* mirror.                                                                 *)
(***************************************************************************)
EXTENDS Integers, Sequences, FiniteSets, TLC

VARIABLES
    db,         \* metadata collection: template name -> chart record or Nil
    s3,         \* object store: tier key -> archive blob or Nil
    local,      \* local mirror: host -> tier key -> tree or Nil
    calls,      \* call slot -> state of the service call running in it
    last,       \* summary of the call that returned most recently
    started,    \* number of service calls started so far
    ingested,   \* history: name -> an ingest of the name has returned success
    removed,    \* history: name -> a remove deleted the record since it was last created
    persisted,  \* history: tier key -> tree of the last persist task that wrote both tiers
    ingestTree, \* history: name -> tree of the last ingest that returned success
    uploaded,   \* history: tier key -> last blob written to the object store
    extract     \* a values.yaml text given to the extraction, and what it returned

vars == <<db, s3, local, calls, last, started, ingested, removed, persisted,
          ingestTree, uploaded, extract>>

\* ------------------------------------------------------------------ bounds

\* Total number of service calls of one behaviour.
MaxCalls == 2

\* Longest values.yaml text given to the extraction by itself.
MaxLen == 7

\* ------------------------------------------------------------ value domains

Nil == <<>>

Slots == {1, 2}
\* The replicas of the service; creates and updates are served by the first.
Hosts == {"h1", "h2"}
WriteHosts == {"h1"}
Names == {"nginx"}

ValuesYaml == "values.yaml"
ChartYaml == "Chart.yaml"

\* File contents are sequences of characters.
\* The characters of a values.yaml text given to the extraction by itself.
Chars == {"$", "a", "b", "c", "\n"}

\* The file the handler asks GetFileContent for.
FileNames == {ValuesYaml}

TextAB == <<"$", "a", "$", "$", "b", "$">>
TextCBB == <<"$", "c", "$", " ", "$", "b", "$", "$", "b", "$">>
ChartText == <<"c">>

\* What a pull may find in the repository: the files of the chart directory.
Contents ==
    { {<<ChartYaml, ChartText>>, <<ValuesYaml, TextAB>>},
      {<<ChartYaml, ChartText>>, <<ValuesYaml, TextCBB>>},
      {<<ChartYaml, ChartText>>} }

\* Source descriptors (fs.DownloadFromSourceArgs); a path is its segments.
DescA == [codehostID |-> 1, owner |-> "koderover", repo |-> "charts",
          path |-> <<"charts", "nginx">>, branch |-> "main"]
DescB == [codehostID |-> 2, owner |-> "koderover", repo |-> "mirror",
          path |-> <<"stable", "nginx">>, branch |-> "dev"]
Descs == {DescA, DescB}

\* Variable lists a caller may send to UpdateChartTemplateVariables.
ArgLists == { <<>>, <<[key |-> <<"a">>, value |-> "9"]>> }

ErrAlreadyExists == "AlreadyExistsError"
ErrNotFound == "NotFoundError"
ErrSourceFetch == "SourceFetchError"
ErrPersist == "PersistError"
ErrHash == "HashError"
ErrParse == "ParseError"
NoErr == "nil"

\* ---------------------------------------------------------- pure functions

\* filepath.Base of a path given as its segments.
Base(path) == IF Len(path) = 0 THEN "." ELSE path[Len(path)]

\* Byte value of a character or of a file or directory name.
Code(s) ==
    CASE s = "$" -> 36
      [] s = " " -> 32
      [] s = "a" -> 97
      [] s = "b" -> 98
      [] s = "c" -> 99
      [] s = "nginx" -> 110
      [] s = "redis" -> 114
      [] s = "." -> 46
      [] s = ChartYaml -> 67
      [] s = ValuesYaml -> 118
      [] OTHER -> 0

\* Archive member order of fsutil.Tar: directory walk in file name order.
FileOrder == <<ChartYaml, ValuesYaml>>

RECURSIVE TarEntries(_, _)
TarEntries(files, i) ==
    IF i > Len(FileOrder) THEN <<>>
    ELSE LET here == {f \in files : f[1] = FileOrder[i]}
         IN  (IF here = {} THEN <<>> ELSE <<CHOOSE f \in here : TRUE>>)
             \o TarEntries(files, i + 1)

\* fsutil.Tar: the archive of a tree, its members in walk order.
Tar(tree) == [root |-> tree.root, entries |-> TarEntries(tree.files, 1)]

\* Decoding of an archive into a tree (the preload of the local mirror).
Untar(blob) ==
    [root |-> blob.root,
     files |-> {blob.entries[i] : i \in 1..Len(blob.entries)}]

RECURSIVE SumBytes(_, _)
SumBytes(h, bytes) ==
    IF bytes = <<>> THEN h
    ELSE SumBytes((h * 31 + Code(Head(bytes))) % 65536, Tail(bytes))

RECURSIVE EntryBytes(_)
EntryBytes(entries) ==
    IF entries = <<>> THEN <<>>
    ELSE <<Head(entries)[1]>> \o Head(entries)[2] \o EntryBytes(Tail(entries))

\* fsutil.Sha1 of an archive, as a 16 bit digest of its bytes.
Sha1(blob) == SumBytes(7, <<blob.root>> \o EntryBytes(blob.entries))

\* Position of the first "$" or line end after position i, 0 when there is none.
RECURSIVE NextStop(_, _)
NextStop(text, i) ==
    IF i > Len(text) THEN 0
    ELSE IF text[i] \in {"$", "\n"} THEN i
    ELSE NextStop(text, i + 1)

\* FindAllStringSubmatch letting a match begin at the "$" that ends the one
\* before it.
RECURSIVE FindAllSubmatchOverlapping(_, _)
FindAllSubmatchOverlapping(text, i) ==
    IF i > Len(text) THEN <<>>
    ELSE IF text[i] # "$" THEN FindAllSubmatchOverlapping(text, i + 1)
    ELSE LET q == NextStop(text, i + 1)
         IN  IF q = 0 THEN <<>>
             ELSE IF text[q] # "$" THEN FindAllSubmatchOverlapping(text, q + 1)
             ELSE <<SubSeq(text, i + 1, q - 1)>> \o FindAllSubmatchOverlapping(text, q)

\* variableExtractRegexp.FindAllStringSubmatch: the captures of the leftmost,
\* non-overlapping, non-greedy matches of \$(.*?)\$ from position i on.
RECURSIVE FindAllSubmatch(_, _)
FindAllSubmatch(text, i) ==
    IF i > Len(text) THEN <<>>
    ELSE IF text[i] # "$" THEN FindAllSubmatch(text, i + 1)
    ELSE LET q == NextStop(text, i + 1)
         IN  IF q = 0 THEN <<>>
             ELSE IF text[q] # "$" THEN FindAllSubmatch(text, q + 1)
             ELSE <<SubSeq(text, i + 1, q - 1)>> \o FindAllSubmatch(text, q + 1)

\* Byte-wise order of two strings.
RECURSIVE StrLess(_, _)
StrLess(a, b) ==
    IF a = <<>> THEN b # <<>>
    ELSE IF b = <<>> THEN FALSE
    ELSE IF Code(Head(a)) # Code(Head(b)) THEN Code(Head(a)) < Code(Head(b))
    ELSE StrLess(Tail(a), Tail(b))

\* sets.String.List: the members of a string set in ascending order.
RECURSIVE SortedList(_)
SortedList(S) ==
    IF S = {} THEN <<>>
    ELSE LET m == CHOOSE x \in S : \A y \in S \ {x} : StrLess(x, y)
         IN  <<m>> \o SortedList(S \ {m})

\* The variable names of a values.yaml text.
ExtractVariables(text) ==
    LET ms == FindAllSubmatch(text, 1)
    IN  SortedList({ms[i] : i \in 1..Len(ms)})

\* chart.GetVariableMap: the variables of a record by key (nothing for no record).
GetVariableMap(chart) ==
    IF chart = Nil THEN <<>>
    ELSE LET vs == chart.variables
         IN  [k \in {vs[i].key : i \in 1..Len(vs)} |->
                 CHOOSE v \in {vs[i] : i \in 1..Len(vs)} : v.key = k]

\* The loop of UpdateChartTemplate without its look-up in the record's variables.
MergeVariablesForgets(variablesNames, chart) ==
    [i \in 1..Len(variablesNames) |-> [key |-> variablesNames[i], value |-> ""]]

\* UpdateChartTemplate's loop over the new names: a name the record already
\* has keeps the record's value, any other name gets the empty value.
MergeVariables(variablesNames, chart) ==
    LET curVariableMap == GetVariableMap(chart)
    IN  [i \in 1..Len(variablesNames) |->
            [key |-> variablesNames[i],
             value |-> IF variablesNames[i] \in DOMAIN curVariableMap
                       THEN curVariableMap[variablesNames[i]].value
                       ELSE ""]]

\* AddChartTemplate's loop over the new names: every value empty.
NewVariables(variablesNames) ==
    [i \in 1..Len(variablesNames) |-> [key |-> variablesNames[i], value |-> ""]]

\* UpdateChartTemplateVariables' loop: it ranges over the list it has just
\* made, which is empty, so nothing of args is copied.
CopyVariables(args) ==
    LET variables == <<>>
    IN  [i \in 1..Len(variables) |-> variables[i]]

\* models.Chart as AddChartTemplate and UpdateChartTemplate build it.
ChartOf(args, sha1, variables) ==
    [codehostID |-> args.codehostID, owner |-> args.owner, repo |-> args.repo,
     path |-> args.path, branch |-> args.branch, sha1 |-> sha1,
     variables |-> variables]

\* processChartFromSource: an empty name is replaced by the base of the path
\* for the two tiers.
TierName(name, args) == IF name = "" THEN Base(args.path) ELSE name

TierKeys == Names \cup {TierName(n, d) : n \in Names, d \in Descs}

\* --------------------------------------------------------- collaborators

\* mongodb.ChartColl: Exist, Get, Create, Update, Delete on the collection.
DbExist(name) == db[name] # Nil
DbGet(name) ==
    IF db[name] = Nil THEN [err |-> ErrNotFound, chart |-> Nil]
    ELSE [err |-> NoErr, chart |-> db[name]]
DbCreate(name, chart) ==
    IF db[name] # Nil THEN [err |-> ErrAlreadyExists, db |-> db]
    ELSE [err |-> NoErr, db |-> [db EXCEPT ![name] = chart]]
DbUpdate(name, chart) ==
    IF db[name] = Nil THEN [err |-> ErrNotFound, db |-> db]
    ELSE [err |-> NoErr, db |-> [db EXCEPT ![name] = chart]]
DbDelete(name) ==
    IF db[name] = Nil THEN [err |-> ErrNotFound, db |-> db]
    ELSE [err |-> NoErr, db |-> [db EXCEPT ![name] = Nil]]

\* fs.PreloadFiles decoding only the first member of the archive.
PreloadFilesFirstMember(loc, host, name) ==
    IF loc[host][name] # Nil THEN [err |-> NoErr, local |-> loc, fetched |-> FALSE]
    ELSE IF s3[name] = Nil THEN [err |-> ErrPersist, local |-> loc, fetched |-> FALSE]
    ELSE [err |-> NoErr,
          local |-> [loc EXCEPT ![host][name] =
                        [root |-> s3[name].root, files |-> {s3[name].entries[1]}]],
          fetched |-> TRUE]

\* fs.PreloadFiles with the object store reachable: nothing to do when the
\* mirror of the name is on the host, otherwise the archive is fetched and
\* decoded into place.
PreloadFiles(loc, host, name) ==
    IF loc[host][name] # Nil THEN [err |-> NoErr, local |-> loc, fetched |-> FALSE]
    ELSE IF s3[name] = Nil THEN [err |-> ErrPersist, local |-> loc, fetched |-> FALSE]
    ELSE [err |-> NoErr, local |-> [loc EXCEPT ![host][name] = Untar(s3[name])],
          fetched |-> TRUE]

\* os.ReadFile of localBase/base/fileName in a mirror.
ReadFile(tree, base, fileName) ==
    IF tree # Nil /\ tree.root = base /\ \E f \in tree.files : f[1] = fileName
    THEN [err |-> NoErr, text |-> (CHOOSE f \in tree.files : f[1] = fileName)[2]]
    ELSE [err |-> ErrNotFound, text |-> <<>>]

\* fs.GetFileInfos of localBase/base in a mirror.
GetFileInfos(tree, base) ==
    IF tree # Nil /\ tree.root = base
    THEN [err |-> NoErr, files |-> {f[1] : f \in tree.files}]
    ELSE [err |-> ErrNotFound, files |-> {}]

\* GetFileContent: the record, the preload, then the file of the mirror.
GetFileContent(name, host, fileName) ==
    LET got == DbGet(name)
    IN  IF got.err # NoErr
        THEN [err |-> got.err, text |-> <<>>, local |-> local, fetched |-> FALSE]
        ELSE LET pre == PreloadFiles(local, host, name)
             IN  IF pre.err # NoErr
                 THEN [err |-> pre.err, text |-> <<>>, local |-> local,
                       fetched |-> FALSE]
                 ELSE LET rd == ReadFile(pre.local[host][name],
                                         Base(got.chart.path), fileName)
                      IN  [err |-> rd.err, text |-> rd.text, local |-> pre.local,
                           fetched |-> pre.fetched]

\* parseTemplateVariables taking a values.yaml it cannot read for an empty one.
ParseTemplateVariablesLenient(name, host) ==
    LET fc == GetFileContent(name, host, ValuesYaml)
    IN  [err |-> NoErr,
         names |-> IF fc.err # NoErr THEN <<>> ELSE ExtractVariables(fc.text),
         local |-> fc.local, fetched |-> fc.fetched]

\* parseTemplateVariables: the names in values.yaml of the mirror.
ParseTemplateVariables(name, host) ==
    LET fc == GetFileContent(name, host, ValuesYaml)
    IN  IF fc.err # NoErr
        THEN [err |-> ErrParse, names |-> <<>>, local |-> fc.local,
              fetched |-> fc.fetched]
        ELSE [err |-> NoErr, names |-> ExtractVariables(fc.text),
              local |-> fc.local, fetched |-> fc.fetched]

\* An archive of a tree and the encoding pass that made it: the one inside
\* fs.SaveAndUploadFiles or the one of the hash task in its temporary directory.
Encode(tree, pass) == [pass |-> pass, blob |-> Tar(tree)]

\* ------------------------------------------------------------- call state

\* A slot with no call in it. sha1 0 stands for the empty string.
Idle ==
    [op |-> "none", name |-> "nginx", host |-> "h1", args |-> Nil, vargs |-> <<>>,
     pc |-> "idle", tree |-> Nil, chart |-> Nil,
     variablesNames |-> <<>>, err |-> NoErr, sha1 |-> 0,
     persist |-> "none", hash |-> "none",
     pull |-> "none", wLocal |-> FALSE, wS3 |-> FALSE, wDb |-> FALSE,
     pFail |-> FALSE, hFail |-> FALSE, s3Del |-> "none",
     file |-> "", preload |-> "none", out |-> Nil,
     archive |-> Nil, hashed |-> Nil]

NewCall(op, name, host, args, vargs) ==
    [Idle EXCEPT !.op = op, !.name = name, !.host = host, !.args = args,
                 !.vargs = vargs]

\* What is kept of a call that has returned: what it was, what it returned
\* and what it did on the way. out is the one-element list of the listing or
\* of the content returned, empty when none was.
Summary(st, ret) ==
    [op |-> st.op, name |-> st.name, ret |-> ret,
     pull |-> st.pull, forked |-> st.persist # "none",
     wLocal |-> st.wLocal, wS3 |-> st.wS3,
     wDb |-> st.wDb, pFail |-> st.pFail, hFail |-> st.hFail, s3Del |-> st.s3Del,
     preload |-> st.preload, out |-> st.out]

\* The call of slot c goes on as call state st.
Goto(c, st) == calls' = [calls EXCEPT ![c] = st]

\* The call of slot c, in call state st, returns ret to its caller.
Return(c, st, ret) ==
    /\ calls' = [calls EXCEPT ![c] = Idle]
    /\ last' = Summary(st, ret)

\* A new call takes the first free slot.
CanStart(c) ==
    /\ started < MaxCalls
    /\ calls[c].pc = "idle"
    /\ \A d \in Slots : d < c => calls[d].pc # "idle"

UNCHANGED_STORES == UNCHANGED <<db, s3, local>>
UNCHANGED_HISTORY ==
    UNCHANGED <<ingested, removed, persisted, ingestTree, uploaded, extract>>

\* ------------------------------------------------------- AddChartTemplate

\* AddChartTemplate without its existence check.
AddChartTemplateNoCheck(c, name, host, args) ==
    /\ CanStart(c)
    /\ started' = started + 1
    /\ Goto(c, [NewCall("create", name, host, args, <<>>) EXCEPT !.pc = "pull"])
    /\ UNCHANGED last
    /\ UNCHANGED_STORES /\ UNCHANGED_HISTORY

\* AddChartTemplate, entry: the existence check.
AddChartTemplate(c, name, host, args) ==
    /\ CanStart(c)
    /\ started' = started + 1
    /\ LET st == NewCall("create", name, host, args, <<>>)
       IN  IF DbExist(name)
           THEN Return(c, st, ErrAlreadyExists)
           ELSE Goto(c, [st EXCEPT !.pc = "pull"]) /\ UNCHANGED last
    /\ UNCHANGED_STORES /\ UNCHANGED_HISTORY

\* ------------------------------------------------ processChartFromSource

\* processChartFromSource going on after a failed download, with no files.
DownloadFailIgnored(c) ==
    /\ calls[c].pc = "pull"
    /\ Goto(c, [calls[c] EXCEPT !.pull = "failed",
                                !.tree = [root |-> Base(calls[c].args.path),
                                          files |-> {}],
                                !.pc = "tasks",
                                !.persist = "run", !.hash = "run"])
    /\ UNCHANGED <<last, started>> /\ UNCHANGED_STORES /\ UNCHANGED_HISTORY

\* fs.DownloadFilesFromSource fails: processChartFromSource and its caller
\* return the error.
DownloadFail(c) ==
    /\ calls[c].pc = "pull"
    /\ Return(c, [calls[c] EXCEPT !.pull = "failed"], ErrSourceFetch)
    /\ UNCHANGED <<started>> /\ UNCHANGED_STORES /\ UNCHANGED_HISTORY

\* fs.DownloadFilesFromSource returns the tree of the source; the two tasks
\* are started.
Download(c) ==
    /\ calls[c].pc = "pull"
    /\ \E files \in Contents :
          Goto(c, [calls[c] EXCEPT !.pull = "ok",
                                   !.tree = [root |-> Base(calls[c].args.path),
                                             files |-> files],
                                   !.pc = "tasks",
                                   !.persist = "run", !.hash = "run"])
    /\ UNCHANGED <<last, started>> /\ UNCHANGED_STORES /\ UNCHANGED_HISTORY

\* The persist task is over once both tiers are written.
PersistAfter(st) ==
    IF st.wLocal /\ st.wS3 THEN [st EXCEPT !.persist = "done"] ELSE st

\* First task, fs.SaveAndUploadFiles writing the local mirror of the host.
PersistLocal(c) ==
    LET st == calls[c]
        key == TierName(st.name, st.args)
        st2 == PersistAfter([st EXCEPT !.wLocal = TRUE])
    IN  /\ st.persist = "run" /\ ~st.wLocal
        /\ local' = [local EXCEPT ![st.host][key] = st.tree]
        /\ Goto(c, st2)
        /\ persisted' = IF st2.persist = "done"
                        THEN [persisted EXCEPT ![key] = st.tree] ELSE persisted
        /\ UNCHANGED <<db, s3, last, started, ingested, removed, ingestTree, uploaded,
                       extract>>

\* First task putting the archive in the object store under a lock on the
\* name: it waits while another call is between its two tier writes.
PersistUploadLocked(c) ==
    LET st == calls[c]
        key == TierName(st.name, st.args)
        st2 == PersistAfter([st EXCEPT !.wS3 = TRUE,
                                       !.archive = Encode(st.tree, "persist")])
    IN  /\ st.persist = "run" /\ ~st.wS3
        /\ \A d \in Slots \ {c} :
              ~(/\ calls[d].persist = "run" /\ calls[d].name = st.name
                /\ (calls[d].wLocal \/ calls[d].wS3))
        /\ s3' = [s3 EXCEPT ![key] = st2.archive.blob]
        /\ uploaded' = [uploaded EXCEPT ![key] = st2.archive.blob]
        /\ Goto(c, st2)
        /\ persisted' = IF st2.persist = "done"
                        THEN [persisted EXCEPT ![key] = st.tree] ELSE persisted
        /\ UNCHANGED <<db, local, last, started, ingested, removed, ingestTree,
                       extract>>

\* First task, fs.SaveAndUploadFiles putting the archive in the object store.
PersistUpload(c) ==
    LET st == calls[c]
        key == TierName(st.name, st.args)
        st2 == PersistAfter([st EXCEPT !.wS3 = TRUE,
                                       !.archive = Encode(st.tree, "persist")])
    IN  /\ st.persist = "run" /\ ~st.wS3
        /\ s3' = [s3 EXCEPT ![key] = st2.archive.blob]
        /\ uploaded' = [uploaded EXCEPT ![key] = st2.archive.blob]
        /\ Goto(c, st2)
        /\ persisted' = IF st2.persist = "done"
                        THEN [persisted EXCEPT ![key] = st.tree] ELSE persisted
        /\ UNCHANGED <<db, local, last, started, ingested, removed, ingestTree,
                       extract>>

\* First task failing and the ingest returning at once, the second task
\* abandoned.
PersistFailReturns(c) ==
    /\ calls[c].persist = "run"
    /\ Return(c, [calls[c] EXCEPT !.err = ErrPersist, !.pFail = TRUE,
                                  !.persist = "done"], ErrPersist)
    /\ UNCHANGED <<started>> /\ UNCHANGED_STORES /\ UNCHANGED_HISTORY

\* First task, fs.SaveAndUploadFiles fails: the task sets the shared err.
PersistFail(c) ==
    /\ calls[c].persist = "run"
    /\ Goto(c, [calls[c] EXCEPT !.err = ErrPersist, !.pFail = TRUE,
                                !.persist = "done"])
    /\ UNCHANGED <<last, started>> /\ UNCHANGED_STORES /\ UNCHANGED_HISTORY

\* Second task: the archive in a temporary directory and its sha1.
HashTask(c) ==
    /\ calls[c].hash = "run"
    /\ LET tarball == Encode(calls[c].tree, "hash")
       IN  Goto(c, [calls[c] EXCEPT !.hashed = tarball,
                                    !.sha1 = Sha1(tarball.blob),
                                    !.hash = "done"])
    /\ UNCHANGED <<last, started>> /\ UNCHANGED_STORES /\ UNCHANGED_HISTORY

\* Second task failing and taking the archive of the name out of the object
\* store again.
HashFailRollsBack(c) ==
    /\ calls[c].hash = "run"
    /\ Goto(c, [calls[c] EXCEPT !.err = ErrHash, !.hFail = TRUE,
                                !.hash = "done"])
    /\ s3' = [s3 EXCEPT ![TierName(calls[c].name, calls[c].args)] = Nil]
    /\ UNCHANGED <<db, local, last, started>> /\ UNCHANGED_HISTORY

\* Second task, os.MkdirTemp, fsutil.Tar or fsutil.Sha1 fails: the task sets
\* the shared err.
HashFail(c) ==
    /\ calls[c].hash = "run"
    /\ Goto(c, [calls[c] EXCEPT !.err = ErrHash, !.hFail = TRUE,
                                !.hash = "done"])
    /\ UNCHANGED <<last, started>> /\ UNCHANGED_STORES /\ UNCHANGED_HISTORY

\* wg.Wait has returned.
Joined(st) == st.pc = "tasks" /\ st.persist = "done" /\ st.hash = "done"

\* processChartFromSource without its test of err after wg.Wait.
ProcessResultIgnoresErr(st) == [sha1 |-> st.sha1, err |-> NoErr]

\* What processChartFromSource returns after wg.Wait.
ProcessResult(st) ==
    IF st.err # NoErr THEN [sha1 |-> 0, err |-> st.err]
    ELSE [sha1 |-> st.sha1, err |-> NoErr]

\* UpdateChartTemplate without its test for a chart that has not changed.
SameSha1Never(chart, sha1) == FALSE

\* UpdateChartTemplate's test for a chart that has not changed.
SameSha1(chart, sha1) == chart.sha1 = sha1

\* History of an ingest of st.name that returns success.
IngestSucceeds(st) ==
    /\ ingested' = [ingested EXCEPT ![st.name] = TRUE]
    /\ ingestTree' = [ingestTree EXCEPT ![st.name] = st.tree]

\* AddChartTemplate once wg.Wait has returned: the error of
\* processChartFromSource, or the variable names and the creation of the record.
AddFinish(c) ==
    LET st == calls[c]
        r == ProcessResult(st)
        p == ParseTemplateVariables(st.name, st.host)
        cr == DbCreate(st.name, ChartOf(st.args, r.sha1, NewVariables(p.names)))
        st2 == [st EXCEPT !.wLocal = st.wLocal \/ p.fetched,
                          !.variablesNames = p.names]
    IN  /\ st.op = "create" /\ Joined(st)
        /\ IF r.err # NoErr
           THEN /\ Return(c, st, r.err)
                /\ UNCHANGED <<db, local, ingested, removed, ingestTree>>
           ELSE IF p.err # NoErr
           THEN /\ Return(c, st2, p.err)
                /\ local' = p.local
                /\ UNCHANGED <<db, ingested, removed, ingestTree>>
           ELSE /\ db' = cr.db
                /\ local' = p.local
                /\ Return(c, [st2 EXCEPT !.wDb = (cr.err = NoErr)], cr.err)
                /\ IF cr.err = NoErr
                   THEN /\ IngestSucceeds(st)
                        /\ removed' = [removed EXCEPT ![st.name] = FALSE]
                   ELSE UNCHANGED <<ingested, removed, ingestTree>>
        /\ UNCHANGED <<s3, started, persisted, uploaded, extract>>

\* ---------------------------------------------------- UpdateChartTemplate

\* UpdateChartTemplate going on to the source whatever Get returned.
UpdateChartTemplateNoCheck(c, name, host, args) ==
    /\ CanStart(c)
    /\ started' = started + 1
    /\ Goto(c, [NewCall("update", name, host, args, <<>>)
                  EXCEPT !.pc = "pull", !.chart = DbGet(name).chart])
    /\ UNCHANGED last
    /\ UNCHANGED_STORES /\ UNCHANGED_HISTORY

\* UpdateChartTemplate, entry: the record is fetched.
UpdateChartTemplate(c, name, host, args) ==
    /\ CanStart(c)
    /\ started' = started + 1
    /\ LET st == NewCall("update", name, host, args, <<>>)
           got == DbGet(name)
       IN  IF got.err # NoErr
           THEN Return(c, st, got.err)
           ELSE Goto(c, [st EXCEPT !.pc = "pull", !.chart = got.chart])
                /\ UNCHANGED last
    /\ UNCHANGED_STORES /\ UNCHANGED_HISTORY

\* UpdateChartTemplate once wg.Wait has returned: the error of
\* processChartFromSource, or nothing more to do when the sha1 is the
\* record's, or the variable names of the refreshed mirror.
UpdateParse(c) ==
    LET st == calls[c]
        r == ProcessResult(st)
        p == ParseTemplateVariables(st.name, st.host)
        st2 == [st EXCEPT !.wLocal = st.wLocal \/ p.fetched,
                          !.variablesNames = p.names, !.sha1 = r.sha1]
    IN  /\ st.op = "update" /\ Joined(st)
        /\ IF r.err # NoErr
           THEN /\ Return(c, st, r.err)
                /\ UNCHANGED <<local, ingested, ingestTree>>
           ELSE IF SameSha1(st.chart, r.sha1)
           THEN /\ Return(c, st, NoErr)
                /\ IngestSucceeds(st)
                /\ UNCHANGED local
           ELSE IF p.err # NoErr
           THEN /\ Return(c, st2, p.err)
                /\ local' = p.local
                /\ UNCHANGED <<ingested, ingestTree>>
           ELSE /\ Goto(c, [st2 EXCEPT !.pc = "write"])
                /\ local' = p.local
                /\ UNCHANGED <<last, ingested, ingestTree>>
        /\ UNCHANGED <<db, s3, started, removed, persisted, uploaded, extract>>

\* UpdateChartTemplate replacing the record with an upsert.
UpdateWriteUpsert(c) ==
    LET st == calls[c]
    IN  /\ st.op = "update" /\ st.pc = "write"
        /\ db' = [db EXCEPT ![st.name] =
                     ChartOf(st.args, st.sha1,
                             MergeVariables(st.variablesNames, st.chart))]
        /\ Return(c, [st EXCEPT !.wDb = TRUE], NoErr)
        /\ IngestSucceeds(st)
        /\ UNCHANGED <<s3, local, started, removed, persisted, uploaded, extract>>

\* UpdateChartTemplate: the values of the record fetched at entry are merged
\* into the new names and the record is replaced.
UpdateWrite(c) ==
    LET st == calls[c]
        up == DbUpdate(st.name, ChartOf(st.args, st.sha1,
                                        MergeVariables(st.variablesNames, st.chart)))
    IN  /\ st.op = "update" /\ st.pc = "write"
        /\ db' = up.db
        /\ Return(c, [st EXCEPT !.wDb = (up.err = NoErr)], up.err)
        /\ IF up.err = NoErr
           THEN IngestSucceeds(st)
           ELSE UNCHANGED <<ingested, ingestTree>>
        /\ UNCHANGED <<s3, local, started, removed, persisted, uploaded, extract>>

\* ------------------------------------------- UpdateChartTemplateVariables

\* UpdateChartTemplateVariables, entry: the record is fetched.
UpdateChartTemplateVariables(c, name, vargs) ==
    /\ CanStart(c)
    /\ started' = started + 1
    /\ LET st == NewCall("variables", name, "h1", Nil, vargs)
           got == DbGet(name)
       IN  IF got.err # NoErr
           THEN Return(c, st, got.err)
           ELSE Goto(c, [st EXCEPT !.pc = "write", !.chart = got.chart])
                /\ UNCHANGED last
    /\ UNCHANGED_STORES /\ UNCHANGED_HISTORY

\* UpdateChartTemplateVariables: the record is replaced, its variables by the
\* copied list.
UpdateVariablesWrite(c) ==
    LET st == calls[c]
        up == DbUpdate(st.name, [st.chart EXCEPT !.variables = CopyVariables(st.vargs)])
    IN  /\ st.op = "variables" /\ st.pc = "write"
        /\ db' = up.db
        /\ Return(c, [st EXCEPT !.wDb = (up.err = NoErr)], up.err)
        /\ UNCHANGED <<s3, local, started>> /\ UNCHANGED_HISTORY

\* ---------------------------------------------------- RemoveChartTemplate

\* RemoveChartTemplate: the record is deleted.
RemoveChartTemplate(c, name) ==
    /\ CanStart(c)
    /\ started' = started + 1
    /\ LET st == NewCall("remove", name, "h1", Nil, <<>>)
           del == DbDelete(name)
       IN  /\ db' = del.db
           /\ IF del.err # NoErr
              THEN Return(c, st, del.err) /\ UNCHANGED removed
              ELSE /\ Goto(c, [st EXCEPT !.pc = "archive", !.wDb = TRUE])
                   /\ removed' = [removed EXCEPT ![name] = TRUE]
                   /\ UNCHANGED last
    /\ UNCHANGED <<s3, local, ingested, persisted, ingestTree, uploaded, extract>>

\* RemoveChartTemplate: fs.DeleteArchivedFileFromS3 deletes the archive.
RemoveArchive(c) ==
    LET st == calls[c]
    IN  /\ st.op = "remove" /\ st.pc = "archive"
        /\ s3' = [s3 EXCEPT ![st.name] = Nil]
        /\ Return(c, [st EXCEPT !.s3Del = "ok"], NoErr)
        /\ UNCHANGED <<db, local, started>> /\ UNCHANGED_HISTORY

\* RemoveChartTemplate returning the error of fs.DeleteArchivedFileFromS3.
RemoveArchiveFailReturned(c) ==
    LET st == calls[c]
    IN  /\ st.op = "remove" /\ st.pc = "archive"
        /\ Return(c, [st EXCEPT !.s3Del = "failed"], ErrPersist)
        /\ UNCHANGED <<started>> /\ UNCHANGED_STORES /\ UNCHANGED_HISTORY

\* RemoveChartTemplate: fs.DeleteArchivedFileFromS3 fails, which is logged.
RemoveArchiveFail(c) ==
    LET st == calls[c]
    IN  /\ st.op = "remove" /\ st.pc = "archive"
        /\ Return(c, [st EXCEPT !.s3Del = "failed"], NoErr)
        /\ UNCHANGED <<started>> /\ UNCHANGED_STORES /\ UNCHANGED_HISTORY

\* ------------------------------------------------------- GetChartTemplate

\* GetChartTemplate going on to the preload whatever Get returned.
GetChartTemplateNoCheck(c, name, host) ==
    /\ CanStart(c)
    /\ started' = started + 1
    /\ Goto(c, [NewCall("get", name, host, Nil, <<>>)
                  EXCEPT !.pc = "preload", !.chart = DbGet(name).chart])
    /\ UNCHANGED last
    /\ UNCHANGED_STORES /\ UNCHANGED_HISTORY

\* GetChartTemplate, entry: the record is fetched.
GetChartTemplate(c, name, host) ==
    /\ CanStart(c)
    /\ started' = started + 1
    /\ LET st == NewCall("get", name, host, Nil, <<>>)
           got == DbGet(name)
       IN  IF got.err # NoErr
           THEN Return(c, st, got.err)
           ELSE Goto(c, [st EXCEPT !.pc = "preload", !.chart = got.chart])
                /\ UNCHANGED last
    /\ UNCHANGED_STORES /\ UNCHANGED_HISTORY

\* GetChartTemplate and GetFileContent: fs.PreloadFiles, then on to the listing
\* or to the read.
GetPreload(c) ==
    LET st == calls[c]
        pre == PreloadFiles(local, st.host, st.name)
    IN  /\ st.op \in {"get", "read"} /\ st.pc = "preload"
        /\ local' = pre.local
        /\ IF pre.err # NoErr
           THEN Return(c, [st EXCEPT !.preload = "failed"], pre.err)
           ELSE Goto(c, [st EXCEPT !.pc = IF st.op = "get" THEN "list" ELSE "read",
                                   !.preload = "ok",
                                   !.wLocal = st.wLocal \/ pre.fetched])
                /\ UNCHANGED last
        /\ UNCHANGED <<db, s3, started>> /\ UNCHANGED_HISTORY

\* GetChartTemplate and GetFileContent going on after a failed preload.
GetPreloadFailIgnored(c) ==
    LET st == calls[c]
    IN  /\ st.op \in {"get", "read"} /\ st.pc = "preload"
        /\ local[st.host][st.name] = Nil
        /\ Goto(c, [st EXCEPT !.pc = IF st.op = "get" THEN "list" ELSE "read",
                                !.preload = "failed"])
        /\ UNCHANGED <<last, started>> /\ UNCHANGED_STORES /\ UNCHANGED_HISTORY

\* GetChartTemplate and GetFileContent: fs.PreloadFiles cannot reach the
\* object store.
GetPreloadFail(c) ==
    LET st == calls[c]
    IN  /\ st.op \in {"get", "read"} /\ st.pc = "preload"
        /\ local[st.host][st.name] = Nil
        /\ Return(c, [st EXCEPT !.preload = "failed"], ErrPersist)
        /\ UNCHANGED <<started>> /\ UNCHANGED_STORES /\ UNCHANGED_HISTORY

\* GetChartTemplate: the files of the mirror and the variables of the record.
GetList(c) ==
    LET st == calls[c]
        fis == GetFileInfos(local[st.host][st.name], Base(st.chart.path))
    IN  /\ st.op = "get" /\ st.pc = "list"
        /\ Return(c, [st EXCEPT !.out = IF fis.err = NoErr THEN <<fis.files>> ELSE Nil],
                  fis.err)
        /\ UNCHANGED <<started>> /\ UNCHANGED_STORES /\ UNCHANGED_HISTORY

\* --------------------------------------------------------- GetFileContent

\* GetFileContent called by the handler, entry: the record is fetched.
ReadFileContent(c, name, host, fileName) ==
    /\ CanStart(c)
    /\ started' = started + 1
    /\ LET st == [NewCall("read", name, host, Nil, <<>>) EXCEPT !.file = fileName]
           got == DbGet(name)
       IN  IF got.err # NoErr
           THEN Return(c, st, got.err)
           ELSE Goto(c, [st EXCEPT !.pc = "preload", !.chart = got.chart])
                /\ UNCHANGED last
    /\ UNCHANGED_STORES /\ UNCHANGED_HISTORY

\* GetFileContent called by the handler: os.ReadFile of the file in the mirror.
ReadContent(c) ==
    LET st == calls[c]
        rd == ReadFile(local[st.host][st.name], Base(st.chart.path), st.file)
    IN  /\ st.op = "read" /\ st.pc = "read"
        /\ Return(c, [st EXCEPT !.out = IF rd.err = NoErr THEN <<rd.text>> ELSE Nil],
                  rd.err)
        /\ UNCHANGED <<started>> /\ UNCHANGED_STORES /\ UNCHANGED_HISTORY

\* ------------------------------------------------------------ the system

\* The tree an earlier deployment ingested, and the record it left.
Tree0 == [root |-> Base(DescA.path),
          files |-> {<<ChartYaml, ChartText>>, <<ValuesYaml, TextAB>>}]
Chart0 == ChartOf(DescA, Sha1(Tar(Tree0)),
                  <<[key |-> <<"a">>, value |-> "1"],
                    [key |-> <<"b">>, value |-> "2"]>>)

\* No text has been given to the extraction.
NoExtract == [text |-> <<>>, names |-> Nil]

\* The service starts with no call in progress and no local mirror, on stores
\* that are empty or hold what an earlier deployment left for a name.
Init ==
    /\ \E have \in SUBSET Names :
          /\ db = [n \in Names |-> IF n \in have THEN Chart0 ELSE Nil]
          /\ s3 = [k \in TierKeys |-> IF k \in have THEN Tar(Tree0) ELSE Nil]
          /\ uploaded = [k \in TierKeys |-> IF k \in have THEN Tar(Tree0) ELSE Nil]
          /\ persisted = [k \in TierKeys |-> IF k \in have THEN Tree0 ELSE Nil]
          /\ ingestTree = [n \in Names |-> IF n \in have THEN Tree0 ELSE Nil]
          /\ ingested = [n \in Names |-> n \in have]
    /\ removed = [n \in Names |-> FALSE]
    /\ local = [h \in Hosts |-> [k \in TierKeys |-> Nil]]
    /\ calls = [c \in Slots |-> Idle]
    /\ last = Summary(Idle, NoErr)
    /\ started = 0
    /\ extract = NoExtract

Next ==
    \E c \in Slots :
        \/ \E n \in Names, h \in WriteHosts, d \in Descs : AddChartTemplate(c, n, h, d)
        \/ \E n \in Names, h \in WriteHosts, d \in Descs : UpdateChartTemplate(c, n, h, d)
        \/ \E n \in Names, a \in ArgLists : UpdateChartTemplateVariables(c, n, a)
        \/ \E n \in Names : RemoveChartTemplate(c, n)
        \/ \E n \in Names, h \in Hosts : GetChartTemplate(c, n, h)
        \/ \E n \in Names, h \in Hosts, f \in FileNames : ReadFileContent(c, n, h, f)
        \/ DownloadFail(c)
        \/ Download(c)
        \/ PersistLocal(c)
        \/ PersistUpload(c)
        \/ PersistFail(c)
        \/ HashTask(c)
        \/ HashFail(c)
        \/ AddFinish(c)
        \/ UpdateParse(c)
        \/ UpdateWrite(c)
        \/ UpdateVariablesWrite(c)
        \/ RemoveArchive(c)
        \/ RemoveArchiveFail(c)
        \/ GetPreload(c)
        \/ GetPreloadFail(c)
        \/ GetList(c)
        \/ ReadContent(c)

Spec == Init /\ [][Next]_vars

\* A step of the first task, the step in which the second task ends, and the
\* step in which the caller leaves wg.Wait.
PersistStep(c) == PersistLocal(c) \/ PersistUpload(c) \/ PersistFail(c)
HashEnds(c) == calls[c].hash = "run" /\ calls'[c].hash = "done"
LeavesWait(c) == Joined(calls[c]) /\ calls'[c].pc # "tasks"

\* The two goroutines of wg.Start are scheduled and the calls they make
\* return; the caller goes on when wg.Wait returns. The second and the third
\* condition are weak fairness of HashTask(c) \/ HashFail(c) and of
\* AddFinish(c) \/ UpdateParse(c), written with the state predicate that says
\* when each is enabled.
FairSpec ==
    /\ Spec
    /\ \A c \in Slots : WF_vars(PersistStep(c))
    /\ \A c \in Slots : []<>(calls[c].hash # "run") \/ []<><<HashEnds(c)>>_vars
    /\ \A c \in Slots : []<>(~Joined(calls[c])) \/ []<><<LeavesWait(c)>>_vars

\* ------------------------------------------------ the extraction by itself

\* The values.yaml texts: every text of at most MaxLen characters.
Texts == UNION {[1..n -> Chars] : n \in 0..MaxLen}

\* The store is empty, no call is in progress, and a text is at hand.
ExtractInit ==
    /\ db = [n \in Names |-> Nil]
    /\ s3 = [k \in TierKeys |-> Nil]
    /\ uploaded = [k \in TierKeys |-> Nil]
    /\ persisted = [k \in TierKeys |-> Nil]
    /\ ingestTree = [n \in Names |-> Nil]
    /\ ingested = [n \in Names |-> FALSE]
    /\ removed = [n \in Names |-> FALSE]
    /\ local = [h \in Hosts |-> [k \in TierKeys |-> Nil]]
    /\ calls = [c \in Slots |-> Idle]
    /\ last = Summary(Idle, NoErr)
    /\ started = 0
    /\ \E t \in Texts : extract = [text |-> t, names |-> Nil]

\* parseTemplateVariables on the text it has read: the one-element list of the
\* names it returns.
Extract ==
    /\ extract.names = Nil
    /\ extract' = [extract EXCEPT !.names = <<ExtractVariables(extract.text)>>]
    /\ UNCHANGED <<db, s3, local, calls, last, started, ingested, removed,
                   persisted, ingestTree, uploaded>>

ExtractNext == Extract

ExtractSpec == ExtractInit /\ [][ExtractNext]_vars

\* ---------------------------------------------------------------- claims

\* No call is in progress.
Quiescent == \A c \in Slots : calls[c].pc = "idle"

\* A step in which a call returns, its summary being last'.
Returned ==
    \/ started' # started /\ calls' = calls
    \/ \E c \in Slots : calls[c].pc # "idle" /\ calls'[c].pc = "idle"

KeysOfList(vs) == [i \in 1..Len(vs) |-> vs[i].key]
KeySet(vs) == {vs[i].key : i \in 1..Len(vs)}

\* The variable names in the values.yaml of a tree, none without the file.
KeysOfTree(tree) ==
    IF tree # Nil /\ \E f \in tree.files : f[1] = ValuesYaml
    THEN ExtractVariables((CHOOSE f \in tree.files : f[1] = ValuesYaml)[2])
    ELSE <<>>

\* The tree of the source with the values.yaml of TextCBB.
TreeCBB == [root |-> Base(DescA.path),
            files |-> {<<ChartYaml, ChartText>>, <<ValuesYaml, TextCBB>>}]

\* C1: a create or update whose persist task or hash task has failed returns
\* an error and has written no record, and never gets to its record write.
C1_TaskFailureNoWrite ==
    /\ (last.op \in {"create", "update"} /\ (last.pFail \/ last.hFail))
          => (last.ret \in {ErrPersist, ErrHash} /\ ~last.wDb)
    /\ \A c \in Slots :
          (calls[c].pFail \/ calls[c].hFail)
             => (~calls[c].wDb /\ calls[c].pc = "tasks")

\* C1 witness: an update has returned the hash error after its persist task
\* wrote both tiers.
C1_Witness ==
    /\ last.op = "update" /\ last.hFail /\ ~last.pFail
    /\ last.wLocal /\ last.wS3 /\ last.ret = ErrHash

\* C2: the record an update writes has the newly extracted names in order; a
\* name the fetched record had keeps that record's value, any other name has
\* the empty value, and no other key is in it.
C2_MergeLaw ==
    [][\A c \in Slots :
          (/\ calls[c].op = "update" /\ calls[c].pc = "write"
           /\ calls'[c].pc = "idle" /\ last'.ret = NoErr)
          => LET old == calls[c].chart.variables
                 new == db'[calls[c].name].variables
             IN  /\ KeysOfList(new) = calls[c].variablesNames
                 /\ \A i \in 1..Len(new) :
                       IF new[i].key \in KeySet(old)
                       THEN \A j \in 1..Len(old) :
                               old[j].key = new[i].key
                                  => new[i].value = old[j].value
                       ELSE new[i].value = ""]_vars

\* C2 witness: an update has replaced variables a=1, b=2 by b=2 and an empty c.
C2_Witness ==
    /\ last.op = "update" /\ last.ret = NoErr /\ last.wDb
    /\ db[last.name] # Nil
    /\ db[last.name].variables = <<[key |-> <<"b">>, value |-> "2"],
                                   [key |-> <<"c">>, value |-> ""]>>

\* C3: an update that has computed the sha1 of the record it fetched returns
\* success in its next step without touching the collection, both tiers
\* having been written by its persist task.
C3_SameSha1Skips ==
    [][\A c \in Slots :
          (/\ calls[c].op = "update" /\ Joined(calls[c])
           /\ calls[c].err = NoErr
           /\ calls[c].sha1 = calls[c].chart.sha1
           /\ calls'[c] # calls[c])
          => (/\ calls'[c].pc = "idle"
              /\ last'.op = "update" /\ last'.ret = NoErr
              /\ ~last'.wDb /\ db' = db
              /\ last'.wLocal /\ last'.wS3)]_vars

\* C3 witness: an update has returned success without a record write after
\* writing both tiers.
C3_Witness ==
    /\ last.op = "update" /\ last.ret = NoErr /\ ~last.wDb
    /\ last.wLocal /\ last.wS3

\* C4: a create goes on past its entry only for a name with no record, and a
\* create that returns AlreadyExistsError has pulled nothing, started no
\* task, written no tier and no record, and leaves the stores as they were.
C4_CreateExisting ==
    [][/\ \A c \in Slots :
             (calls[c].pc = "idle" /\ calls'[c].pc # "idle"
              /\ calls'[c].op = "create")
                => db[calls'[c].name] = Nil
       /\ (Returned /\ last'.op = "create" /\ last'.ret = ErrAlreadyExists)
             => (/\ db[last'.name] # Nil
                 /\ db' = db /\ s3' = s3 /\ local' = local
                 /\ last'.pull = "none" /\ ~last'.forked
                 /\ ~last'.wLocal /\ ~last'.wS3 /\ ~last'.wDb)]_vars

\* C4 witness: a create has returned AlreadyExistsError for a name whose
\* record is the one the store started with.
C4_Witness ==
    /\ last.op = "create" /\ last.ret = ErrAlreadyExists
    /\ db[last.name] = Chart0

\* C5 as stated: a name has a record exactly when an ingest of it has
\* returned success.
C5_RecordIffIngested ==
    \A n \in Names : (db[n] # Nil) <=> ingested[n]

\* C5 amended: a name has a record exactly when an ingest of it has returned
\* success and no remove has deleted the record since it was last created.
C5_RecordIffIngestedNotRemoved ==
    \A n \in Names : (db[n] # Nil) <=> (ingested[n] /\ ~removed[n])

\* C5 witness: a remove has returned success for an ingested name, whose
\* record is gone.
C5_Witness ==
    /\ last.op = "remove" /\ last.ret = NoErr
    /\ ingested[last.name] /\ removed[last.name] /\ db[last.name] = Nil

\* C6 as stated: with no call in progress, the sha1 of a record is that of the
\* tree last persisted to both tiers for its name.
C6_Sha1OfPersisted ==
    Quiescent =>
        \A n \in Names :
            db[n] # Nil =>
                /\ persisted[n] # Nil
                /\ db[n].sha1 = Sha1(Tar(persisted[n]))

\* C7 as stated: the keys of a record are the names in the values.yaml of the
\* last ingest of its name that returned success.
C7_KeysOfLastIngest ==
    \A n \in Names :
        db[n] # Nil =>
            KeySet(db[n].variables) =
                LET ks == KeysOfTree(ingestTree[n])
                IN  {ks[i] : i \in 1..Len(ks)}

\* C8 as stated: with no call in progress, a local mirror of a name holds what
\* was last written to the object store for it.
C8_MirrorOfLastUpload ==
    Quiescent =>
        \A h \in Hosts, k \in TierKeys :
            local[h][k] # Nil =>
                /\ uploaded[k] # Nil
                /\ local[h][k] = Untar(uploaded[k])

\* C9: a remove whose record deletion fails returns that error from its entry
\* with the object store untouched; one whose deletion succeeds leaves no
\* record for the name, then returns success whether the archive deletion
\* succeeded or failed.
C9_Remove ==
    [][/\ \A c \in Slots :
             (calls[c].pc = "idle" /\ calls'[c].pc # "idle"
              /\ calls'[c].op = "remove")
                => (/\ db[calls'[c].name] # Nil
                    /\ db'[calls'[c].name] = Nil
                    /\ s3' = s3)
       /\ (Returned /\ last'.op = "remove")
             => IF last'.wDb
                THEN /\ last'.ret = NoErr
                     /\ last'.s3Del \in {"ok", "failed"}
                     /\ db' = db
                ELSE /\ last'.ret = ErrNotFound
                     /\ last'.s3Del = "none"
                     /\ db[last'.name] = Nil
                     /\ db' = db /\ s3' = s3]_vars

\* C9 witness: a remove has returned success although the archive deletion
\* failed, and the record is gone.
C9_Witness ==
    /\ last.op = "remove" /\ last.ret = NoErr /\ last.s3Del = "failed"
    /\ db[last.name] = Nil /\ s3[last.name] # Nil

\* C10: a call whose download failed has returned SourceFetchError with no
\* task started, no tier written and no record written, and no call goes on
\* after a failed download.
C10_PullFailure ==
    /\ last.pull = "failed"
          => (/\ last.ret = ErrSourceFetch /\ ~last.forked
              /\ ~last.wLocal /\ ~last.wS3 /\ ~last.wDb)
    /\ \A c \in Slots : calls[c].pull # "failed"

\* C10 witness: an update has returned after its download failed.
C10_Witness == last.op = "update" /\ last.pull = "failed"

\* The entry step of a call of operation op that returns at once.
EntryReturn(op) == started' # started /\ calls' = calls /\ last'.op = op

\* The entry step of a call of operation op that goes on, in slot c.
EntryGoesOn(c, op) ==
    calls[c].pc = "idle" /\ calls'[c].pc # "idle" /\ calls'[c].op = op

\* C11: an update of a name that has no record returns the not-found error at
\* its entry, before any pull of the source, any write of a tier and any write
\* of a record; an update goes on to the source only with the record it found.
C11_UpdateMissing ==
    [][/\ \A n \in Names :
             (db[n] = Nil /\ started' # started /\ last'.op = "update"
                 /\ last'.name = n /\ calls' = calls)
                => /\ last'.ret = ErrNotFound
                   /\ last'.pull = "none" /\ ~last'.forked
                   /\ ~last'.wLocal /\ ~last'.wS3 /\ ~last'.wDb
                   /\ db' = db /\ s3' = s3 /\ local' = local
       /\ \A c \in Slots :
             EntryGoesOn(c, "update")
                => /\ db[calls'[c].name] # Nil
                   /\ calls'[c].chart = db[calls'[c].name]
       /\ EntryReturn("update") => db[last'.name] = Nil]_vars

\* C11 witness: an update has returned the not-found error on a store with no
\* record, having pulled and written nothing.
C11_Witness ==
    /\ last.op = "update" /\ last.ret = ErrNotFound
    /\ last.pull = "none" /\ ~last.forked
    /\ db[last.name] = Nil /\ s3[last.name] = Nil
    /\ \A h \in Hosts : local[h][last.name] = Nil

\* C12: a get or a file read of a name that has no record returns the
\* not-found error at its entry without attempting a preload: the object store
\* is not read, no mirror is written and nothing is listed or read; only a
\* call that found the record goes on to the preload.
C12_ReadMissing ==
    [][\A op \in {"get", "read"} :
          /\ EntryReturn(op)
                => /\ db[last'.name] = Nil
                   /\ last'.ret = ErrNotFound
                   /\ last'.preload = "none" /\ ~last'.wLocal
                   /\ last'.out = Nil
                   /\ db' = db /\ s3' = s3 /\ local' = local
          /\ \A c \in Slots :
                EntryGoesOn(c, op)
                   => /\ db[calls'[c].name] # Nil
                      /\ calls'[c].pc = "preload"
                      /\ calls'[c].preload = "none"]_vars

\* C12 witness: a get has returned the not-found error for a name whose
\* archive is in the object store and whose mirror is on no host.
C12_Witness ==
    /\ last.op = "get" /\ last.ret = ErrNotFound /\ last.preload = "none"
    /\ db[last.name] = Nil /\ s3[last.name] # Nil
    /\ \A h \in Hosts : local[h][last.name] = Nil

\* The files an archive holds, each with its content.
MembersOf(blob) == {blob.entries[i] : i \in 1..Len(blob.entries)}

C14_PreloadFirst ==
    /\ \A c \in Slots :
          calls[c].pc \in {"list", "read"}
             => /\ calls[c].preload = "ok"
                /\ local[calls[c].host][calls[c].name] # Nil
    /\ \A c \in Slots :
          calls[c].pc = "preload" => (calls[c].preload = "none" /\ calls[c].out = Nil)
    /\ (last.op \in {"get", "read"} /\ last.preload = "failed")
          => (last.ret = ErrPersist /\ last.out = Nil)
    /\ (last.op \in {"get", "read"} /\ last.out # Nil)
          => (last.preload = "ok" /\ last.ret = NoErr)

\* C14 witness: a get has returned the error of its failed preload with no
\* listing, and a file read is about to read after its preload succeeded.
C14_Witness ==
    /\ last.op = "get" /\ last.preload = "failed"
    /\ last.ret = ErrPersist /\ last.out = Nil
    /\ \E c \in Slots :
          /\ calls[c].op = "read" /\ calls[c].pc = "read"
          /\ calls[c].preload = "ok"

\* The tree has the values.yaml the variables are extracted from.
HasValuesYaml(tree) == tree # Nil /\ \E f \in tree.files : f[1] = ValuesYaml

\* C15: a create of a name that has no record, whose pull and two tasks have
\* succeeded on a tree with a values.yaml, returns success and has written
\* the record with exactly the names extracted from that file, sorted and
\* without duplicates, each with an empty value, with the descriptor supplied
\* and the sha1 computed.
C15_CreateRecord ==
    [][\A c \in Slots :
          (/\ calls[c].op = "create" /\ Joined(calls[c])
           /\ calls[c].err = NoErr /\ HasValuesYaml(calls[c].tree)
           /\ db[calls[c].name] = Nil
           /\ calls'[c].pc = "idle")
             => LET st == calls[c]
                    keys == KeysOfTree(st.tree)
                IN  /\ last'.ret = NoErr
                    /\ db'[st.name] =
                          ChartOf(st.args, Sha1(Tar(st.tree)),
                                  [i \in 1..Len(keys) |->
                                      [key |-> keys[i], value |-> ""]])]_vars

\* The source descriptor of a record or of the arguments of an ingest.
DescriptorOf(r) ==
    [codehostID |-> r.codehostID, owner |-> r.owner, repo |-> r.repo,
     path |-> r.path, branch |-> r.branch]

\* C16: when an update returns success, the record of the name has the
\* descriptor (code host, owner, repo, path, branch) supplied to that update.
C16_DescriptorReplaced ==
    [][\A c \in Slots :
          (/\ calls[c].op = "update" /\ calls[c].pc # "idle"
           /\ calls'[c].pc = "idle" /\ last'.ret = NoErr)
             => /\ db'[calls[c].name] # Nil
                /\ DescriptorOf(db'[calls[c].name]) = DescriptorOf(calls[c].args)]_vars

\* C17: an ingest whose persist task and hash task have both failed returns
\* one and the same error whatever the order in which the tasks ran: the error
\* a call has after wg.Wait with both tasks failed is the error that the last
\* call with both tasks failed returned.
C17_SameErrorBothFailed ==
    \A c \in Slots :
       (/\ last.pFail /\ last.hFail
        /\ Joined(calls[c]) /\ calls[c].pFail /\ calls[c].hFail)
          => ProcessResult(calls[c]).err = last.ret

\* A task that stops running has finished by itself, the call still being at
\* wg.Wait: the persist task with both tiers written or with its own failure,
\* the hash task with the sha1 of the archive of the tree or with its own
\* failure.
TasksRunToCompletion ==
    \A c \in Slots :
       /\ (calls[c].persist = "run" /\ calls'[c].persist # "run")
             => /\ calls'[c].persist = "done" /\ calls'[c].pc = "tasks"
                /\ \/ calls'[c].wLocal /\ calls'[c].wS3 /\ ~calls'[c].pFail
                   \/ calls'[c].pFail /\ ~calls[c].pFail
       /\ (calls[c].hash = "run" /\ calls'[c].hash # "run")
             => /\ calls'[c].hash = "done" /\ calls'[c].pc = "tasks"
                /\ \/ calls'[c].sha1 = Sha1(Tar(calls[c].tree)) /\ ~calls'[c].hFail
                   \/ calls'[c].hFail /\ ~calls[c].hFail

\* processChartFromSource returns only when both tasks have finished.
ReturnsAfterBoth ==
    \A c \in Slots :
       (calls[c].pc = "tasks" /\ calls'[c].pc # "tasks")
          => (calls[c].persist = "done" /\ calls[c].hash = "done")

\* C18: after the pull of an ingest, each of the two tasks runs until it has
\* finished by itself, whether or not the other has failed, the ingest leaves
\* wg.Wait only when both have finished, and with the tasks scheduled and
\* their calls returning every ingest that started its tasks leaves wg.Wait.
C18_BothTasksThenReturn ==
    /\ [][TasksRunToCompletion /\ ReturnsAfterBoth]_vars
    /\ \A c \in Slots :
          (calls[c].pc = "tasks" /\ calls[c].persist = "run")
             ~> (calls[c].pc = "tasks" /\ calls[c].persist = "done")
    /\ \A c \in Slots :
          (calls[c].pc = "tasks" /\ calls[c].hash = "run")
             ~> (calls[c].pc = "tasks" /\ calls[c].hash = "done")
    /\ \A c \in Slots : (calls[c].pc = "tasks") ~> (calls[c].pc # "tasks")

\* C18 witness: an ingest has returned the error of its persist task, which
\* failed after writing a tier, its hash task having finished with the sha1.
C18_Witness ==
    /\ last.op = "update" /\ last.forked
    /\ last.pFail /\ ~last.hFail /\ last.wS3
    /\ last.ret = ErrPersist

\* C19: no ingest waits for another ingest of the same name: whatever the
\* other calls are doing, a persist task that has a tier left to write can
\* write it next, so the tier writes of two ingests can interleave.
C19_NoPersistLock ==
    \A c \in Slots :
       calls[c].persist = "run"
          => /\ ~calls[c].wLocal => ENABLED PersistLocal(c)
             /\ ~calls[c].wS3 => ENABLED PersistUpload(c)

\* C19 witness: two updates of nginx have both returned success. One pulled
\* TreeCBB and wrote the record, whose sha1 is that of TreeCBB; the other
\* pulled Tree0, found its sha1 in the record it had fetched at entry and
\* returned last without writing the record, and the object store and the
\* mirror of the host hold its Tree0.
C19_Witness ==
    /\ Quiescent /\ started = 2
    /\ last.op = "update" /\ last.ret = NoErr
    /\ last.wLocal /\ last.wS3 /\ ~last.wDb
    /\ db["nginx"] # Nil
    /\ db["nginx"].sha1 = Sha1(Tar(TreeCBB))
    /\ db["nginx"].sha1 # Sha1(Tar(Tree0))
    /\ s3["nginx"] = Tar(Tree0)
    /\ local["h1"]["nginx"] = Tree0

\* C20: in an ingest whose two tasks have succeeded, the archive whose sha1
\* the ingest returns is the archive the persist task put in the object
\* store, made by one and the same encoding pass, and the sha1 is the hash of
\* that archive.
C20_OneEncodingPass ==
    \A c \in Slots :
       (Joined(calls[c]) /\ ~calls[c].pFail /\ ~calls[c].hFail)
          => /\ calls[c].hashed = calls[c].archive
             /\ calls[c].sha1 = Sha1(calls[c].archive.blob)

\* C21: an ingest of which a task fails undoes nothing. The step in which a
\* task fails and the step in which the ingest returns the error change no
\* tier and no record, and the ingest has written no record; when no other
\* call has run, the record is as it was before the call and each tier the
\* persist task wrote holds the tree that was pulled.
C21_NoRollback ==
    [][\A c \in Slots :
          LET st == calls[c]
              key == TierName(st.name, st.args)
          IN  /\ (/\ st.pc = "tasks"
                  /\ \/ calls'[c].pFail /\ ~st.pFail
                     \/ calls'[c].hFail /\ ~st.hFail)
                    => (db' = db /\ s3' = s3 /\ local' = local)
              /\ (/\ st.pc = "tasks" /\ (st.pFail \/ st.hFail)
                  /\ calls'[c].pc # "tasks")
                    => /\ calls'[c].pc = "idle"
                       /\ last'.ret \in {ErrPersist, ErrHash} /\ ~last'.wDb
                       /\ db' = db /\ s3' = s3 /\ local' = local
                       /\ started = 1
                             => /\ db[st.name] =
                                      IF ingested[st.name] THEN Chart0 ELSE Nil
                                /\ st.wS3 => s3[key] = Tar(st.tree)
                                /\ st.wLocal => local[st.host][key] = st.tree]_vars

\* C21 witness: the only call so far, an update, has returned the error of
\* its hash task after its persist task put the archive of TreeCBB in the
\* object store; the archive is there and the record is the one of Tree0.
C21_Witness ==
    /\ started = 1 /\ Quiescent
    /\ last.op = "update" /\ last.hFail /\ last.wS3 /\ last.ret = ErrHash
    /\ s3["nginx"] = Tar(TreeCBB)
    /\ db["nginx"] = Chart0

\* C22: when the two tasks of a create, or of an update whose sha1 is not the
\* record's, have succeeded and the mirror of the host has no values.yaml, the
\* call returns the parse error in its next step and writes no record; both
\* tiers were written by its persist task and stay as they are, holding the
\* pulled tree when no other call has run.
C22_ParseError ==
    [][\A c \in Slots :
          LET st == calls[c]
              key == TierName(st.name, st.args)
          IN  (/\ st.op \in {"create", "update"} /\ Joined(st)
               /\ ~st.pFail /\ ~st.hFail
               /\ st.op = "update" => ~SameSha1(st.chart, st.sha1)
               /\ ~HasValuesYaml(local[st.host][st.name])
               /\ calls'[c] # st)
                 => /\ calls'[c].pc = "idle"
                    /\ last'.op = st.op /\ last'.ret = ErrParse /\ ~last'.wDb
                    /\ db' = db /\ s3' = s3 /\ local' = local
                    /\ st.wLocal /\ st.wS3
                    /\ started = 1
                          => /\ s3[key] = Tar(st.tree)
                             /\ local[st.host][key] = st.tree]_vars

\* C22 witness: the only call so far, an update that pulled a tree without
\* values.yaml, has returned the parse error; both tiers hold that tree and
\* the record is the one of Tree0.
C22_Witness ==
    /\ started = 1 /\ Quiescent
    /\ last.op = "update" /\ last.ret = ErrParse
    /\ last.wLocal /\ last.wS3 /\ ~last.wDb
    /\ s3["nginx"] # Nil /\ local["h1"]["nginx"] # Nil
    /\ ~HasValuesYaml(local["h1"]["nginx"])
    /\ Untar(s3["nginx"]) = local["h1"]["nginx"]
    /\ db["nginx"] = Chart0

\* A token of the text: a "$" at i, the next "$" at j, and between them no
\* character of stops.
IsToken(text, i, j, stops) ==
    /\ i < j /\ text[i] = "$" /\ text[j] = "$"
    /\ \A k \in (i + 1)..(j - 1) : text[k] \notin stops \cup {"$"}

\* The tokens matched from position s on, left to right and without overlap:
\* the leftmost token, then the tokens matched after its end.
RECURSIVE MatchesFrom(_, _, _)
MatchesFrom(text, s, stops) ==
    LET T == {m \in (s..Len(text)) \X (s..Len(text)) :
                 IsToken(text, m[1], m[2], stops)}
    IN  IF T = {} THEN {}
        ELSE LET m == CHOOSE m \in T : \A n \in T : m[1] <= n[1]
             IN  {m} \cup MatchesFrom(text, m[2] + 1, stops)

\* What the matched tokens enclose.
Captures(text, stops) ==
    {SubSeq(text, m[1] + 1, m[2] - 1) : m \in MatchesFrom(text, 1, stops)}

\* names is the ascending list, without duplicates, of the members of S.
IsSortedListOf(names, S) ==
    /\ {names[k] : k \in 1..Len(names)} = S
    /\ \A k \in 1..(Len(names) - 1) : StrLess(names[k], names[k + 1])

\* C23 as stated: for every text the extraction returns the ascending list,
\* without duplicates, of what is enclosed by the tokens matched left to right
\* without overlap, a token being a "$", any characters but "$", and a "$".
C23_ExtractAnyText ==
    extract.names # Nil
       => IsSortedListOf(extract.names[1], Captures(extract.text, {}))

\* C23 amended: the same with tokens that lie within one line: a "$", any
\* characters but "$" and the line end, possibly none, and a "$".
C23_ExtractWithinLines ==
    extract.names # Nil
       => /\ IsSortedListOf(extract.names[1], Captures(extract.text, {"\n"}))
          /\ Captures(extract.text, {"\n"}) = {} => extract.names[1] = <<>>

\* C23 witness: the extraction has returned a and c, in this order, for the
\* text $c$b$a$.
C23_Witness ==
    /\ extract.text = <<"$", "c", "$", "b", "$", "a", "$">>
    /\ extract.names = << << <<"a">>, <<"c">> >> >>

\* C24: when UpdateChartTemplateVariables returns success, the variables of
\* the record are the list it was given: same keys, same values, same order.
C24_VariablesStored ==
    [][\A c \in Slots :
          (/\ calls[c].op = "variables" /\ calls[c].pc = "write"
           /\ calls'[c].pc = "idle" /\ last'.ret = NoErr)
             => /\ db'[calls[c].name] # Nil
                /\ db'[calls[c].name].variables = calls[c].vargs]_vars

\* C25: UpdateChartTemplateVariables pulls no source and reads and writes no
\* tier; the step in which it writes leaves the descriptor and the sha1 of the
\* record as they are; for a name that has no record it returns the not-found
\* error and the collection stays as it is.
C25_VariablesFrame ==
    [][/\ \A c \in Slots :
             (calls[c].op = "variables" /\ calls[c].pc = "write"
                 /\ calls'[c].pc = "idle")
                => LET n == calls[c].name
                   IN  /\ last'.op = "variables" /\ last'.name = n
                       /\ last'.pull = "none" /\ ~last'.forked
                       /\ last'.preload = "none"
                       /\ ~last'.wLocal /\ ~last'.wS3
                       /\ s3' = s3 /\ local' = local
                       /\ db[n] = Nil
                             => (last'.ret = ErrNotFound /\ db' = db)
                       /\ db[n] # Nil
                             => /\ last'.ret = NoErr /\ db'[n] # Nil
                                /\ DescriptorOf(db'[n]) = DescriptorOf(db[n])
                                /\ db'[n].sha1 = db[n].sha1
       /\ EntryReturn("variables")
             => /\ db[last'.name] = Nil /\ last'.ret = ErrNotFound
                /\ ~last'.wDb
                /\ db' = db /\ s3' = s3 /\ local' = local]_vars

\* C26: a create of a name whose record a remove has deleted, whose pull and
\* two tasks have succeeded on a tree with a values.yaml, returns success, and
\* then the record has the sha1 and the names of that tree and the object
\* store and the mirror of the host hold that tree, whatever the remove left
\* in the object store and in the mirrors.
C26_CreateAfterRemove ==
    [][\A c \in Slots :
          LET st == calls[c]
              key == TierName(st.name, st.args)
          IN  (/\ st.op = "create" /\ Joined(st)
               /\ ~st.pFail /\ ~st.hFail /\ HasValuesYaml(st.tree)
               /\ removed[st.name] /\ db[st.name] = Nil
               /\ \A d \in Slots \ {c} : calls[d].pc = "idle"
               /\ calls'[c].pc = "idle")
                 => /\ last'.ret = NoErr
                    /\ db'[st.name] # Nil
                    /\ db'[st.name].sha1 = Sha1(Tar(st.tree))
                    /\ KeysOfList(db'[st.name].variables) = KeysOfTree(st.tree)
                    /\ s3'[key] = Tar(st.tree)
                    /\ local'[st.host][key] = st.tree]_vars

====
